---- MODULE Spec2Model ----
(***************************************************************************)
(* The training harness of src/src/train.py as a state machine:            *)
(*   main()         the endless sweep over config files and learning rates *)
(*   train()        the epoch loop, learning-rate decay and checkpointing  *)
(*   train_epoch()  the batch loop, optimizer stepping and loss accounting *)
(* The tensor framework, the model classes, evaluate() and the data        *)
(* loaders are external: what they return is drawn from the sets held in   *)
(* the input variables (dataset, oracle).                                  *)
(*                                                                         *)
(* Floats are integers: finite values are small naturals, Inf is larger    *)
(* than every finite value of the model, NaN compares false with all.      *)
(* A learning rate is an integer and lr_decay_factor an integer factor, so *)
(* that the repeated multiplication of line 131 is exact.                  *)
(* Model parameters are a journal: the sequence of optimizer steps applied *)
(* since the model was built.                                              *)
(***************************************************************************)
EXTENDS Integers, Sequences, FiniteSets, TLC

\* ------------------------------------------------------------- bounds
MaxEpochs == 3
MaxDecayStep == 2
MaxBatches == 4
MaxFiles == 2
MaxLrs == 2
MaxSweeps == 1
MaxLogInterval == 2

\* ------------------------------------------------- values of the program
Inf == 1000
NaN == -1
Unbound == -2
InitialFinalBest == 100
NumParamGroups == 1
None == <<>>

RmseValues == {1, 2, 100, Inf, NaN}

Min2(a, b) == IF a < b THEN a ELSE b

\* best_rmse > test_rmse on floats (line 134): false when either is NaN
GT(a, b) == a # NaN /\ b # NaN /\ a > b
\* variant of LT: <= for <
LE(a, b) == a # NaN /\ b # NaN /\ a <= b

\* best_rmse < final_best_rmse on floats (line 165)
LT(a, b) == a # NaN /\ b # NaN /\ a < b

RECURSIVE Pow(_, _)
Pow(b, k) == IF k = 0 THEN 1 ELSE b * Pow(b, k - 1)

RECURSIVE SumSeq(_)
SumSeq(s) == IF s = <<>> THEN 0 ELSE Head(s) + SumSeq(Tail(s))

\* ---------------------------------------------------------------- state
VARIABLES
  \* inputs: files on disk, data, and what the external numerical code returns
  train_list, yaml, dataset, oracle,
  \* control
  pc, err,
  \* main()
  file_list, fi, args, lri, final_best_rmse, best_lr, returned,
  \* train()
  epoch_idx, best_epoch, best_rmse, best_state, heap, param_groups, grad,
  train_loss, val_rmse, test_rmse,
  \* train_epoch()
  iter_idx, epoch_loss, iter_loss, iter_mse, iter_cnt, fwd,
  \* history of the current train() call
  test_hist, best_hist, trace, written,
  \* history of the current train_epoch() call
  batch_hist, log_lines, ops,
  \* history of the current config file's sweep, and of main()
  calls, rets, n_sweeps

envVars == <<train_list, yaml, dataset, oracle>>
mainVars == <<file_list, fi, args, lri, final_best_rmse, best_lr, returned>>
trainVars == <<epoch_idx, best_epoch, best_rmse, best_state, heap, param_groups,
               grad, train_loss, val_rmse, test_rmse>>
epochVars == <<iter_idx, epoch_loss, iter_loss, iter_mse, iter_cnt, fwd>>
trainHist == <<test_hist, best_hist, trace, written>>
epochHist == <<batch_hist, log_lines, ops>>
mainHist == <<calls, rets, n_sweeps>>
vars == <<envVars, pc, err, mainVars, trainVars, epochVars, trainHist,
          epochHist, mainHist>>

\* ------------------------------------------------------ input universes
\* train_list.yaml: the config files 1..n in order
FileLists(n) == {[i \in 1..k |-> i] : k \in 0..n}
\* args.train_lrs: the learning rates 1..n in order
LrLists(n) == {[i \in 1..k |-> i] : k \in 0..n}

Configs(epochs, steps, intervals, lrlists) ==
  [train_epochs : epochs, lr_decay_step : steps, lr_decay_factor : {2},
   log_interval : intervals, train_lrs : lrlists]

\* get_args_from_yaml(f): the file's settings, train_lr not yet set
ArgsOf(f) == [key |-> f, train_lr |-> Unbound,
              train_epochs |-> yaml[f].train_epochs,
              lr_decay_step |-> yaml[f].lr_decay_step,
              lr_decay_factor |-> yaml[f].lr_decay_factor,
              log_interval |-> yaml[f].log_interval,
              train_lrs |-> yaml[f].train_lrs]

NoArgs == [key |-> 0, train_lr |-> Unbound, train_epochs |-> 0, lr_decay_step |-> 1,
           lr_decay_factor |-> 1, log_interval |-> 1, train_lrs |-> <<>>]

\* the loaders of get_dataloader: the sizes of the training batches in order and
\* len(loader.dataset)
\* len(loader.dataset); every batch has batch_size samples, the last one may have
\* fewer, and d samples of the dataset are in no batch
Datasets(nb, sizes, drops) ==
  {[sizes |-> s, len |-> SumSeq(s) + d] :
     s \in {t \in UNION {[1..k -> sizes] : k \in 1..nb} :
              \A i \in 1..Len(t) : t[i] <= t[1] /\ (i < Len(t) => t[i] = t[1])},
     d \in drops}

NoLoss == [num |-> Unbound, den |-> 1]
NoFwd == [loss |-> Unbound, sse |-> Unbound, n |-> Unbound]
NewHeap == [live |-> <<>>, snap |-> <<>>]

InitWith(lists, configs, datasets, oracles) ==
  /\ train_list \in lists
  /\ yaml \in [{train_list[i] : i \in 1..Len(train_list)} -> configs]
  /\ dataset \in datasets
  /\ oracle \in oracles
  /\ pc = "main_while" /\ err = "none"
  /\ file_list = <<>> /\ fi = 0 /\ args = NoArgs /\ lri = 0
  /\ final_best_rmse = Unbound /\ best_lr = None /\ returned = Unbound
  /\ epoch_idx = Unbound /\ best_epoch = Unbound /\ best_rmse = Unbound
  /\ best_state = "unbound" /\ heap = NewHeap /\ param_groups = <<>> /\ grad = {}
  /\ train_loss = NoLoss /\ val_rmse = Unbound /\ test_rmse = Unbound
  /\ iter_idx = Unbound /\ epoch_loss = Unbound /\ iter_loss = Unbound
  /\ iter_mse = Unbound /\ iter_cnt = Unbound /\ fwd = NoFwd
  /\ test_hist = <<>> /\ best_hist = <<>> /\ trace = <<>> /\ written = <<>>
  /\ batch_hist = <<>> /\ log_lines = <<>> /\ ops = <<>>
  /\ calls = <<>> /\ rets = <<>> /\ n_sweeps = 0

\* ---------------------------------------------------------------- main()
\* variant of WhileCond: one pass over the file list
WhileFirstPass == n_sweeps = 0

\* line 147: while 1
WhileCond == TRUE

MainWhile ==
  /\ pc = "main_while"
  /\ pc' = IF WhileCond THEN "read_list" ELSE "main_returned"
  /\ UNCHANGED <<envVars, err, mainVars, trainVars, epochVars, trainHist,
                 epochHist, mainHist>>

\* lines 148-150: the file list is read from disk
ReadList ==
  /\ pc = "read_list"
  /\ file_list' = train_list
  /\ fi' = 0
  /\ pc' = "for_file"
  /\ UNCHANGED <<envVars, err, args, lri, final_best_rmse, best_lr, returned,
                 trainVars, epochVars, trainHist, epochHist, mainHist>>

\* variant of NewSweep: the two are set once, before the loop over the files
KeepSweep ==
  [final |-> IF final_best_rmse = Unbound THEN InitialFinalBest ELSE final_best_rmse,
   lr |-> best_lr]

\* lines 158-159: final_best_rmse = 100, best_lr = None
NewSweep == [final |-> InitialFinalBest, lr |-> None]

\* lines 151-159: the next config file, or the end of the file list
ForFile ==
  /\ pc = "for_file"
  /\ IF fi < Len(file_list)
       THEN /\ fi' = fi + 1
            /\ args' = ArgsOf(file_list[fi + 1])
            /\ final_best_rmse' = NewSweep.final
            /\ best_lr' = NewSweep.lr
            /\ lri' = 0
            /\ calls' = <<>> /\ rets' = <<>>
            /\ pc' = "for_lr"
            /\ UNCHANGED n_sweeps
       ELSE /\ pc' = "main_while"
            /\ n_sweeps' = Min2(n_sweeps + 1, MaxSweeps)
            /\ UNCHANGED <<fi, args, final_best_rmse, best_lr, lri, calls, rets>>
  /\ UNCHANGED <<envVars, err, file_list, returned, trainVars, epochVars,
                 trainHist, epochHist>>

\* lines 160-162: the next learning rate; line 168: the final report of the file
ForLr ==
  /\ pc = "for_lr"
  /\ IF lri < Len(args.train_lrs)
       THEN /\ lri' = lri + 1
            /\ args' = [args EXCEPT !.train_lr = args.train_lrs[lri + 1]]
            /\ pc' = "train_begin"
       ELSE /\ pc' = "for_file"
            /\ UNCHANGED <<lri, args>>
  /\ UNCHANGED <<envVars, err, file_list, fi, final_best_rmse, best_lr, returned,
                 trainVars, epochVars, trainHist, epochHist, mainHist>>

\* lines 163-167: the returned best_rmse against final_best_rmse
SweepUpdate ==
  /\ pc = "sweep_update"
  /\ IF LT(returned, final_best_rmse)
       THEN final_best_rmse' = returned /\ best_lr' = <<args.train_lr>>
       ELSE UNCHANGED <<final_best_rmse, best_lr>>
  /\ rets' = Append(rets, returned)
  /\ pc' = "for_lr"
  /\ UNCHANGED <<envVars, err, file_list, fi, args, lri, returned, trainVars,
                 epochVars, trainHist, epochHist, calls, n_sweeps>>

\* ---------------------------------------------------------------- train()
\* line 104: optim.Adam(model.parameters(), lr=args.train_lr): one parameter group
NewOptimizer(lr) == [g \in 1..NumParamGroups |-> [lr |-> lr]]

\* lines 57-112: a fresh frame (best_state unbound), the loaders, a new model,
\* a new optimizer, best_epoch = 0, best_rmse = inf.  epoch_idx = 0 stands for
\* the position of the for loop before its first element.
TrainBegin ==
  /\ pc = "train_begin"
  /\ epoch_idx' = 0
  /\ best_epoch' = 0
  /\ best_rmse' = Inf
  /\ best_state' = "unbound"
  /\ heap' = NewHeap
  /\ param_groups' = NewOptimizer(args.train_lr)
  /\ grad' = {}
  /\ train_loss' = NoLoss /\ val_rmse' = Unbound /\ test_rmse' = Unbound
  /\ test_hist' = <<>> /\ best_hist' = <<>> /\ trace' = <<>> /\ written' = <<>>
  /\ calls' = Append(calls, args.train_lr)
  /\ pc' = "for_epoch"
  /\ UNCHANGED <<envVars, err, mainVars, epochVars, epochHist, rets, n_sweeps>>

\* lines 112-114: for epoch_idx in 1..train_epochs
ForEpoch ==
  /\ pc = "for_epoch"
  /\ IF epoch_idx < args.train_epochs
       THEN epoch_idx' = epoch_idx + 1 /\ pc' = "te_begin"
       ELSE UNCHANGED epoch_idx /\ pc' = "save"
  /\ UNCHANGED <<envVars, err, mainVars, best_epoch, best_rmse, best_state, heap,
                 param_groups, grad, train_loss, val_rmse, test_rmse, epochVars,
                 trainHist, epochHist, mainHist>>

\* line 118: evaluate on the validation loader
EvalValid ==
  /\ pc = "eval_valid"
  /\ \E r \in oracle.val : val_rmse' = r
  /\ trace' = Append(trace, <<"valid", epoch_idx>>)
  /\ pc' = "eval_test"
  /\ UNCHANGED <<envVars, err, mainVars, epoch_idx, best_epoch, best_rmse,
                 best_state, heap, param_groups, grad, train_loss, test_rmse,
                 epochVars, test_hist, best_hist, written, epochHist, mainHist>>

\* line 119: evaluate on the test loader
EvalTest ==
  /\ pc = "eval_test"
  /\ \E r \in oracle.test : test_rmse' = r /\ test_hist' = Append(test_hist, r)
  /\ trace' = Append(trace, <<"test", epoch_idx>>)
  /\ pc' = "lr_decay"
  /\ UNCHANGED <<envVars, err, mainVars, epoch_idx, best_epoch, best_rmse,
                 best_state, heap, param_groups, grad, train_loss, val_rmse,
                 epochVars, best_hist, written, epochHist, mainHist>>

\* variant of DecayDue: the decay one epoch early
DecayDueEarly(e, step) == (e + 1) % step = 0

\* line 129: epoch_idx % args.lr_decay_step == 0
DecayDue(e, step) == e % step = 0

\* lines 130-131: every parameter group's lr is multiplied by lr_decay_factor
DecayAll(pg, factor) == [g \in DOMAIN pg |-> [pg[g] EXCEPT !.lr = factor * @]]

\* lines 120-132: the epoch's log line, then the learning-rate decay
LrDecay ==
  /\ pc = "lr_decay"
  /\ param_groups' = IF DecayDue(epoch_idx, args.lr_decay_step)
                       THEN DecayAll(param_groups, args.lr_decay_factor)
                       ELSE param_groups
  /\ pc' = "checkpoint"
  /\ UNCHANGED <<envVars, err, mainVars, epoch_idx, best_epoch, best_rmse,
                 best_state, heap, grad, train_loss, val_rmse, test_rmse,
                 epochVars, trainHist, epochHist, mainHist>>

\* variant of Improves: a tie replaces the best (>= for >)
ImprovesOrTies(best, test) == best # NaN /\ test # NaN /\ best >= test

\* variant of Improves: not (best_rmse <= test_rmse), true of a NaN test_rmse
ImprovesUnlessLE(best, test) == ~(best # NaN /\ test # NaN /\ best <= test)

\* line 134: best_rmse > test_rmse
Improves(best, test) == GT(best, test)

\* variant of StateDictCopy: model.state_dict() without the deepcopy, a reference
\* to the live parameters
StateDictAlias(h) == [heap |-> h, ref |-> "live"]

\* line 138: copy.deepcopy(model.state_dict()): a new object holding the value
\* of the live parameters
StateDictCopy(h) == [heap |-> [h EXCEPT !.snap = h.live], ref |-> "snap"]

\* lines 134-138: the checkpoint update
Checkpoint ==
  /\ pc = "checkpoint"
  /\ IF Improves(best_rmse, test_rmse)
       THEN /\ best_epoch' = epoch_idx
            /\ best_rmse' = test_rmse
            /\ heap' = StateDictCopy(heap).heap
            /\ best_state' = StateDictCopy(heap).ref
       ELSE UNCHANGED <<best_epoch, best_rmse, heap, best_state>>
  /\ best_hist' = Append(best_hist, best_rmse')
  /\ trace' = Append(trace, <<"checkpoint", epoch_idx>>)
  /\ pc' = "for_epoch"
  /\ UNCHANGED <<envVars, err, mainVars, epoch_idx, param_groups, grad,
                 train_loss, val_rmse, test_rmse, epochVars, test_hist, written,
                 epochHist, mainHist>>

\* line 140: th.save(best_state, ...); reading the unbound best_state raises
Save ==
  /\ pc = "save"
  /\ IF best_state = "unbound"
       THEN /\ pc' = "error" /\ err' = "UnboundLocalError"
            /\ UNCHANGED <<written, trace>>
       ELSE /\ written' = Append(written, [key |-> args.key, rmse |-> best_rmse,
                                           state |-> heap[best_state]])
            /\ trace' = Append(trace, <<"save", epoch_idx>>)
            /\ pc' = "train_end" /\ UNCHANGED err
  /\ UNCHANGED <<envVars, mainVars, trainVars, epochVars, test_hist, best_hist,
                 epochHist, mainHist>>

\* lines 141-142 and 163: train() returns best_rmse and its frame is gone
TrainEnd ==
  /\ pc = "train_end"
  /\ returned' = best_rmse
  /\ epoch_idx' = Unbound /\ best_epoch' = Unbound /\ best_rmse' = Unbound
  /\ best_state' = "unbound" /\ heap' = NewHeap /\ param_groups' = <<>>
  /\ grad' = {} /\ train_loss' = NoLoss /\ val_rmse' = Unbound
  /\ test_rmse' = Unbound
  /\ test_hist' = <<>> /\ best_hist' = <<>> /\ trace' = <<>> /\ written' = <<>>
  /\ pc' = "sweep_update"
  /\ UNCHANGED <<envVars, err, file_list, fi, args, lri, final_best_rmse, best_lr,
                 epochVars, epochHist, mainHist>>

\* ---------------------------------------------------------- train_epoch()
\* lines 20-27
TeBegin ==
  /\ pc = "te_begin"
  /\ iter_idx' = 0
  /\ epoch_loss' = 0 /\ iter_loss' = 0 /\ iter_mse' = 0 /\ iter_cnt' = 0
  /\ fwd' = NoFwd
  /\ batch_hist' = <<>> /\ log_lines' = <<>> /\ ops' = <<>>
  /\ pc' = "for_batch"
  /\ UNCHANGED <<envVars, err, mainVars, trainVars, trainHist, mainHist>>

\* lines 29-33: for iter_idx, batch in enumerate(loader, start=1)
ForBatch ==
  /\ pc = "for_batch"
  /\ IF iter_idx < Len(dataset.sizes)
       THEN iter_idx' = iter_idx + 1 /\ pc' = "forward"
       ELSE UNCHANGED iter_idx /\ pc' = "te_return"
  /\ ops' = <<>>
  /\ UNCHANGED <<envVars, err, mainVars, trainVars, epoch_loss, iter_loss,
                 iter_mse, iter_cnt, fwd, trainHist, batch_hist, log_lines,
                 mainHist>>

\* lines 34-35: the forward pass and the loss of this batch
Forward ==
  /\ pc = "forward"
  /\ \E o \in oracle.fwd :
       fwd' = [loss |-> o.loss, sse |-> o.sse, n |-> dataset.sizes[iter_idx]]
  /\ ops' = Append(ops, "forward")
  /\ pc' = "zero_grad"
  /\ UNCHANGED <<envVars, err, mainVars, trainVars, iter_idx, epoch_loss,
                 iter_loss, iter_mse, iter_cnt, trainHist, batch_hist, log_lines,
                 mainHist>>

\* variant of ZeroGradOf: the gradient buffers are not cleared
KeepGrad(g) == g

\* line 37: optimizer.zero_grad()
ZeroGradOf(g) == {}

ZeroGrad ==
  /\ pc = "zero_grad"
  /\ grad' = ZeroGradOf(grad)
  /\ ops' = Append(ops, "zero_grad")
  /\ pc' = "backward"
  /\ UNCHANGED <<envVars, err, mainVars, epoch_idx, best_epoch, best_rmse,
                 best_state, heap, param_groups, train_loss, val_rmse, test_rmse,
                 epochVars, trainHist, batch_hist, log_lines, mainHist>>

\* line 38: loss.backward() adds this batch's gradient to the gradient buffers
Backward ==
  /\ pc = "backward"
  /\ grad' = grad \cup {<<epoch_idx, iter_idx>>}
  /\ ops' = Append(ops, "backward")
  /\ pc' = "step"
  /\ UNCHANGED <<envVars, err, mainVars, epoch_idx, best_epoch, best_rmse,
                 best_state, heap, param_groups, train_loss, val_rmse, test_rmse,
                 epochVars, trainHist, batch_hist, log_lines, mainHist>>

\* line 39: optimizer.step() updates the live parameters from the gradient
\* buffers with each group's current lr
OptimizerStep(h, pg, g, e, i) ==
  [h EXCEPT !.live = Append(@, [epoch |-> e, iter |-> i, grad |-> g,
                                 lr |-> [k \in DOMAIN pg |-> pg[k].lr]])]

Step ==
  /\ pc = "step"
  /\ heap' = OptimizerStep(heap, param_groups, grad, epoch_idx, iter_idx)
  /\ ops' = Append(ops, "step")
  /\ pc' = "account"
  /\ UNCHANGED <<envVars, err, mainVars, epoch_idx, best_epoch, best_rmse,
                 best_state, param_groups, grad, train_loss, val_rmse, test_rmse,
                 epochVars, trainHist, batch_hist, log_lines, mainHist>>

\* lines 41-45
Account ==
  /\ pc = "account"
  /\ epoch_loss' = epoch_loss + fwd.loss * fwd.n
  /\ iter_loss' = iter_loss + fwd.loss * fwd.n
  /\ iter_mse' = iter_mse + fwd.sse
  /\ iter_cnt' = iter_cnt + fwd.n
  /\ batch_hist' = Append(batch_hist, fwd)
  /\ pc' = "log_check"
  /\ UNCHANGED <<envVars, err, mainVars, trainVars, iter_idx, fwd, trainHist,
                 log_lines, ops, mainHist>>

\* variant of LogDue: the log line one iteration early
LogDueEarly(i, interval) == (i + 1) % interval = 0

\* line 47: iter_idx % log_interval == 0
LogDue(i, interval) == i % interval = 0

\* lines 47-51: the log line divides by iter_cnt, then the three are reset
LogCheck ==
  /\ pc = "log_check"
  /\ IF LogDue(iter_idx, args.log_interval)
       THEN IF iter_cnt = 0
              THEN /\ pc' = "error" /\ err' = "ZeroDivisionError"
                   /\ UNCHANGED <<iter_loss, iter_mse, iter_cnt, log_lines>>
              ELSE /\ log_lines' = Append(log_lines,
                         [iter |-> iter_idx, loss |-> iter_loss, mse |-> iter_mse,
                          cnt |-> iter_cnt])
                   /\ iter_loss' = 0 /\ iter_mse' = 0 /\ iter_cnt' = 0
                   /\ pc' = "for_batch" /\ UNCHANGED err
       ELSE /\ pc' = "for_batch"
            /\ UNCHANGED <<err, iter_loss, iter_mse, iter_cnt, log_lines>>
  /\ UNCHANGED <<envVars, mainVars, trainVars, iter_idx, epoch_loss, fwd,
                 trainHist, batch_hist, ops, mainHist>>

\* line 53: epoch_loss / len(loader.dataset), as a fraction
TrainEpochReturn == [num |-> epoch_loss, den |-> dataset.len]

\* lines 53 and 116: train_epoch() returns and its frame is gone
TeReturn ==
  /\ pc = "te_return"
  /\ IF dataset.len = 0
       THEN /\ pc' = "error" /\ err' = "ZeroDivisionError"
            /\ UNCHANGED <<train_loss, epochVars, epochHist, trace>>
       ELSE /\ train_loss' = TrainEpochReturn
            /\ iter_idx' = Unbound /\ epoch_loss' = Unbound /\ iter_loss' = Unbound
            /\ iter_mse' = Unbound /\ iter_cnt' = Unbound /\ fwd' = NoFwd
            /\ batch_hist' = <<>> /\ log_lines' = <<>> /\ ops' = <<>>
            /\ trace' = Append(trace, <<"train_epoch", epoch_idx>>)
            /\ pc' = "eval_valid" /\ UNCHANGED err
  /\ UNCHANGED <<envVars, mainVars, epoch_idx, best_epoch, best_rmse, best_state,
                 heap, param_groups, grad, val_rmse, test_rmse, test_hist,
                 best_hist, written, mainHist>>

\* -------------------------------------------------------- specifications
Next ==
  \/ MainWhile \/ ReadList \/ ForFile \/ ForLr \/ SweepUpdate
  \/ TrainBegin \/ ForEpoch \/ EvalValid \/ EvalTest \/ LrDecay \/ Checkpoint
  \/ Save \/ TrainEnd
  \/ TeBegin \/ ForBatch \/ Forward \/ ZeroGrad \/ Backward \/ Step \/ Account
  \/ LogCheck \/ TeReturn

\* train(): one config file with one learning rate; the epochs, the decay step
\* and the RMSE values vary
Init ==
  InitWith({<<1>>},
           Configs(0..MaxEpochs, 1..MaxDecayStep, {1}, {<<1>>}),
           Datasets(2, {1}, {0}),
           {[fwd |-> {[loss |-> 1, sse |-> 0]}, val |-> {1, NaN},
             test |-> RmseValues]})

Spec == Init /\ [][Next]_vars

\* main(): several config files, each with its list of learning rates; one
\* epoch with a decay per run
InitSweep ==
  InitWith(FileLists(MaxFiles),
           Configs({1}, {1}, {1}, LrLists(MaxLrs)),
           Datasets(1, {1}, {0}),
           {[fwd |-> {[loss |-> 1, sse |-> 0]}, val |-> {1},
             test |-> {1, 2, 100, NaN}]})

SpecSweep == InitSweep /\ [][Next]_vars

\* train_epoch(): batches of one or two samples, the last one maybe smaller,
\* with or without a sample outside every batch; two epochs
InitEpoch ==
  InitWith({<<1>>},
           Configs({2}, {1}, 1..MaxLogInterval, {<<1>>}),
           Datasets(MaxBatches, {1, 2}, {0, 1}),
           {[fwd |-> {[loss |-> 1, sse |-> 0], [loss |-> 2, sse |-> 3]},
             val |-> {1}, test |-> {1}]})

SpecEpoch == InitEpoch /\ [][Next]_vars

\* main() as a sequential program that never stops by itself: some step is
\* taken whenever one is possible
InitFair ==
  InitWith(FileLists(MaxFiles),
           Configs({1}, {1}, {1}, LrLists(MaxLrs)),
           Datasets(1, {1}, {0}),
           {[fwd |-> {[loss |-> 1, sse |-> 0]}, val |-> {1}, test |-> {1, NaN}]})

FairSpec == InitFair /\ [][Next]_vars /\ WF_vars(Next)

\* ------------------------------------------------------------ the claims
\* the train() frame exists: from the call to the return, or to the error
InTrain == epoch_idx # Unbound

\* the events of epochs 1..n in the order of the text
RECURSIVE EpochsTrace(_)
EpochsTrace(n) ==
  IF n = 0 THEN <<>>
  ELSE EpochsTrace(n - 1) \o << <<"train_epoch", n>>, <<"valid", n>>,
                                <<"test", n>>, <<"checkpoint", n>> >>

\* C1 as stated: a call of train() with train_epochs = N >= 1 that has come to
\* its end (by return or by error) has run the epochs 1..N, each as
\* train_epoch, validation, test, checkpoint update, in this order, and has
\* written the checkpoint file exactly once, after epoch N.
C1_AsStated ==
  (pc \in {"train_end", "error"} /\ InTrain /\ args.train_epochs >= 1) =>
     /\ trace = EpochsTrace(args.train_epochs) \o << <<"save", args.train_epochs>> >>
     /\ Len(written) = 1

\* the epochs of h whose test_rmse is a number below infinity
Candidates(h) == {i \in 1..Len(h) : h[i] # NaN /\ h[i] < Inf}

BestRmseOf(h) ==
  IF Candidates(h) = {} THEN Inf
  ELSE CHOOSE v \in {h[i] : i \in Candidates(h)} :
         \A j \in Candidates(h) : v <= h[j]

BestEpochOf(h) ==
  IF Candidates(h) = {} THEN 0
  ELSE CHOOSE i \in Candidates(h) :
         /\ h[i] = BestRmseOf(h)
         /\ \A j \in Candidates(h) : h[j] = BestRmseOf(h) => i <= j

\* m is the minimum of the floats of h: an element that is <= every element
IsMinOf(m, h) ==
  /\ \E i \in 1..Len(h) : h[i] = m
  /\ \A j \in 1..Len(h) : m # NaN /\ h[j] # NaN /\ m <= h[j]

\* C2 as stated: after every completed epoch k >= 1, best_rmse is the minimum
\* of test_rmse over the epochs 1..k and best_epoch is the smallest epoch of
\* 1..k whose test_rmse attains it.
C2_AsStated ==
  (pc = "for_epoch" /\ epoch_idx >= 1) =>
     /\ IsMinOf(best_rmse, test_hist)
     /\ best_epoch \in 1..epoch_idx
     /\ test_hist[best_epoch] = best_rmse
     /\ \A j \in 1..epoch_idx : test_hist[j] = best_rmse => best_epoch <= j

\* C2 amended: while train() runs, best_rmse is the minimum of the test_rmse
\* values, over the epochs whose checkpoint update is done, that are numbers
\* below infinity (infinity, with best_epoch = 0, when there is none), and
\* best_epoch is the smallest epoch attaining it; best_rmse never increases
\* from an epoch to the next; the value train() returns is that minimum over
\* all N epochs.  val_rmse appears nowhere in it.
C2_BestIsFirstMinimum ==
  InTrain =>
     /\ Len(best_hist) <= Len(test_hist)
     /\ best_rmse = BestRmseOf(SubSeq(test_hist, 1, Len(best_hist)))
     /\ best_epoch = BestEpochOf(SubSeq(test_hist, 1, Len(best_hist)))
     /\ \A k \in 1..Len(best_hist) :
          best_hist[k] = BestRmseOf(SubSeq(test_hist, 1, k))
     /\ \A k \in 1..(Len(best_hist) - 1) : best_hist[k + 1] <= best_hist[k]
     /\ pc \in {"for_epoch", "save", "train_end"} =>
          Len(best_hist) = epoch_idx /\ Len(test_hist) = epoch_idx
     /\ pc = "train_end" =>
          /\ Len(test_hist) = args.train_epochs
          /\ best_rmse = BestRmseOf(test_hist)

\* a later epoch ties the best and does not replace it, after a NaN epoch and
\* with a validation RMSE that is NaN
C2_Witness ==
  /\ pc = "train_end"
  /\ test_hist = <<NaN, 1, 1>>
  /\ best_epoch = 2 /\ best_rmse = 1
  /\ val_rmse = NaN

\* the journal as it was at the end of epoch e
UpToEpoch(j, e) == SelectSeq(j, LAMBDA x : x.epoch <= e)
AfterEpoch(j, e) == SelectSeq(j, LAMBDA x : x.epoch > e)

\* C4: once best_state is bound it holds the parameters as they were at the end
\* of epoch best_epoch, whatever the later epochs did to the live parameters;
\* this is what th.save writes, and the live parameters are that state followed
\* by the steps of the epochs best_epoch+1..N, one per batch.
C4_SavedIsSnapshotOfBestEpoch ==
  /\ (InTrain /\ best_state # "unbound") =>
        /\ best_epoch >= 1
        /\ heap[best_state] = UpToEpoch(heap.live, best_epoch)
        /\ Len(heap[best_state]) = best_epoch * Len(dataset.sizes)
        /\ heap.live = heap[best_state] \o AfterEpoch(heap.live, best_epoch)
  /\ (InTrain /\ pc = "train_end") =>
        /\ Len(written) = 1
        /\ written[1].state = UpToEpoch(heap.live, best_epoch)
        /\ Len(AfterEpoch(heap.live, best_epoch)) =
             (args.train_epochs - best_epoch) * Len(dataset.sizes)
        /\ best_epoch < args.train_epochs => written[1].state # heap.live

\* the best epoch is not the last one: the saved state lacks the later steps
C4_Witness ==
  /\ pc = "train_end"
  /\ best_epoch = 1 /\ args.train_epochs = 3
  /\ Len(written) = 1
  /\ Len(written[1].state) + 2 * Len(dataset.sizes) = Len(heap.live)
  /\ args.lr_decay_step = 1

\* the decays applied so far, by the place in the epoch
DecaysDone ==
  IF pc \in {"checkpoint", "for_epoch", "save", "train_end", "error"}
    THEN epoch_idx \div args.lr_decay_step
    ELSE (epoch_idx - 1) \div args.lr_decay_step

\* C5: in train(), every parameter group's lr is train_lr times lr_decay_factor
\* to the number of decays due so far: floor((e-1)/lr_decay_step) from the start
\* of epoch e to its test evaluation, floor(e/lr_decay_step) from then on;
\* every optimizer step of epoch e was made with
\* train_lr * lr_decay_factor^floor((e-1)/lr_decay_step) in every group.
C5_DecayCount ==
  (InTrain /\ param_groups # <<>>) =>
     /\ \A g \in DOMAIN param_groups :
          param_groups[g].lr =
            args.train_lr * Pow(args.lr_decay_factor, DecaysDone)
     /\ \A k \in 1..Len(heap.live) : \A g \in DOMAIN heap.live[k].lr :
          heap.live[k].lr[g] =
            args.train_lr * Pow(args.lr_decay_factor,
                                (heap.live[k].epoch - 1) \div args.lr_decay_step)
     /\ pc = "train_end" =>
          \A g \in DOMAIN param_groups :
            param_groups[g].lr =
              args.train_lr * Pow(args.lr_decay_factor,
                                  args.train_epochs \div args.lr_decay_step)

\* three epochs with a decay every two: epoch 3 trained after one decay
C5_Witness ==
  /\ pc = "train_end"
  /\ args.train_epochs = 3 /\ args.lr_decay_step = 2
  /\ param_groups[1].lr = 2 * args.train_lr
  /\ heap.live[Len(heap.live)].epoch = 3
  /\ heap.live[Len(heap.live)].lr[1] = 2 * args.train_lr
  /\ heap.live[1].lr[1] = args.train_lr

\* no epoch of h has a test_rmse below infinity
NeverImproves(h) == \A i \in 1..Len(h) : h[i] \in {Inf, NaN}

\* C8: at the save step best_state is unbound exactly when no epoch had a
\* test_rmse below infinity (also with no epoch at all); the call then ends in
\* an error with no checkpoint written and nothing returned to the sweep;
\* with a finite test_rmse best_state is bound and 1 <= best_epoch <= N.
C8_UnboundBestState ==
  /\ (pc = "save" /\ NeverImproves(test_hist)) => best_state = "unbound"
  /\ (pc = "save" /\ ~NeverImproves(test_hist)) =>
        /\ best_state # "unbound"
        /\ best_epoch \in 1..args.train_epochs
  /\ (pc = "error" /\ err = "UnboundLocalError") =>
        /\ NeverImproves(test_hist)
        /\ Len(test_hist) = args.train_epochs
        /\ written = <<>>
        /\ Len(rets) = Len(calls) - 1
  /\ (pc = "train_end") => ~NeverImproves(test_hist) /\ Len(written) = 1

\* two epochs, one infinite and one NaN test_rmse: the call ends in the error
C8_Witness ==
  /\ pc = "error" /\ err = "UnboundLocalError"
  /\ test_hist = <<Inf, NaN>>
  /\ written = <<>>

\* the smallest of final_best_rmse's initial value and the returned values
MinReturned(r) ==
  CHOOSE v \in {InitialFinalBest} \cup {r[i] : i \in 1..Len(r)} :
    \A w \in {InitialFinalBest} \cup {r[i] : i \in 1..Len(r)} : v <= w

\* the learning rate of the first call that returned the smallest value, if
\* that value is below final_best_rmse's initial value
FirstBestLr(lrs, r) ==
  IF \A i \in 1..Len(r) : ~(r[i] < InitialFinalBest) THEN None
  ELSE << lrs[CHOOSE i \in 1..Len(r) :
                /\ r[i] = MinReturned(r)
                /\ \A j \in 1..Len(r) : r[j] = MinReturned(r) => i <= j] >>

\* C3: in the sweep of a config file train() is called once per element of
\* args.train_lrs, in list order, with train_lr set to it; after each return,
\* and so when the sweep ends, final_best_rmse is the smallest of 100 and the
\* returned values and best_lr is the first learning rate that returned it, or
\* None when nothing below 100 was returned.
C3_SweepPicksFirstMinimum ==
  /\ pc = "for_lr" =>
        /\ calls = SubSeq(args.train_lrs, 1, lri)
        /\ Len(rets) = lri
        /\ final_best_rmse = MinReturned(rets)
        /\ best_lr = FirstBestLr(args.train_lrs, rets)
  /\ InTrain =>
        /\ lri \in 1..Len(args.train_lrs)
        /\ args.train_lr = args.train_lrs[lri]
        /\ calls = SubSeq(args.train_lrs, 1, lri)
        /\ Len(rets) = lri - 1

\* the sweep of a file has ended; the second learning rate only tied the first
C3_Witness ==
  /\ pc = "for_lr" /\ lri = Len(args.train_lrs)
  /\ args.train_lrs = <<1, 2>>
  /\ rets = <<2, 2>>
  /\ final_best_rmse = 2 /\ best_lr = <<1>>

\* C10: a call of train() starts with best_epoch = 0, best_rmse = infinity,
\* best_state unbound, a model without any step, empty gradient buffers and an
\* optimizer whose groups all have the swept learning rate undecayed; during
\* the run the learning rates and the steps are those of this run's train_lr
\* alone; the sweep of a config file starts with final_best_rmse = 100, best_lr
\* = None and no returned value.
C10_RunsAreIndependent ==
  /\ (pc = "for_epoch" /\ epoch_idx = 0) =>
        /\ best_epoch = 0 /\ best_rmse = Inf /\ best_state = "unbound"
        /\ heap.live = <<>> /\ grad = {}
        /\ test_hist = <<>> /\ written = <<>>
        /\ Len(param_groups) = NumParamGroups
        /\ \A g \in DOMAIN param_groups :
             param_groups[g].lr = args.train_lrs[lri]
  /\ InTrain =>
        /\ \A g \in DOMAIN param_groups :
             param_groups[g].lr =
               args.train_lrs[lri] * Pow(args.lr_decay_factor, DecaysDone)
        /\ \A k \in 1..Len(heap.live) :
             /\ heap.live[k].epoch \in 1..epoch_idx
             /\ \A g \in DOMAIN heap.live[k].lr :
                  heap.live[k].lr[g] =
                    args.train_lrs[lri] *
                      Pow(args.lr_decay_factor,
                          (heap.live[k].epoch - 1) \div args.lr_decay_step)
        /\ best_rmse = BestRmseOf(SubSeq(test_hist, 1, Len(best_hist)))
  /\ (pc = "for_lr" /\ lri = 0) =>
        /\ final_best_rmse = InitialFinalBest /\ best_lr = None
        /\ rets = <<>> /\ calls = <<>>

\* the second learning rate of the second file starts in a repetition of the
\* outer loop, after runs that decayed, stepped and found a best RMSE
C10_Witness ==
  /\ pc = "for_epoch" /\ epoch_idx = 0
  /\ n_sweeps >= 1 /\ fi = 2 /\ lri = 2
  /\ args.train_epochs >= 1 /\ args.lr_decay_step = 1
  /\ rets = <<1>> /\ final_best_rmse = 1 /\ best_lr = <<1>>
  /\ param_groups[1].lr = 2

RECURSIVE LossSum(_)
LossSum(h) == IF h = <<>> THEN 0 ELSE Head(h).loss * Head(h).n + LossSum(Tail(h))
RECURSIVE MseSum(_)
MseSum(h) == IF h = <<>> THEN 0 ELSE Head(h).sse + MseSum(Tail(h))
RECURSIVE CntSum(_)
CntSum(h) == IF h = <<>> THEN 0 ELSE Head(h).n + CntSum(Tail(h))

\* the train_epoch() frame exists
InEpoch == iter_idx # Unbound

BatchOps == <<"forward", "zero_grad", "backward", "step">>

\* the optimizer steps due so far in this call of train(), by the place
StepsDone ==
  IF pc \in {"forward", "zero_grad", "backward", "step"}
    THEN (epoch_idx - 1) * Len(dataset.sizes) + iter_idx - 1
  ELSE IF pc \in {"for_batch", "account", "log_check"}
    THEN (epoch_idx - 1) * Len(dataset.sizes) + iter_idx
  ELSE IF pc = "te_begin"
    THEN (epoch_idx - 1) * Len(dataset.sizes)
  ELSE epoch_idx * Len(dataset.sizes)

\* C6: the live parameters have had exactly one optimizer step per batch
\* trained so far, in batch order, none of them during an evaluation; each
\* step used the gradient of its own batch alone; within a batch the
\* operations run forward, zero_grad, backward, step.
C6_OneStepPerBatch ==
  InTrain =>
     /\ Len(heap.live) = StepsDone
     /\ \A k \in 1..Len(heap.live) :
          /\ heap.live[k].epoch = ((k - 1) \div Len(dataset.sizes)) + 1
          /\ heap.live[k].iter = ((k - 1) % Len(dataset.sizes)) + 1
          /\ heap.live[k].grad = {<<heap.live[k].epoch, heap.live[k].iter>>}
     /\ pc = "forward" => ops = <<>>
     /\ pc = "zero_grad" => ops = SubSeq(BatchOps, 1, 1)
     /\ pc = "backward" => ops = SubSeq(BatchOps, 1, 2) /\ grad = {}
     /\ pc = "step" => ops = SubSeq(BatchOps, 1, 3)
                         /\ grad = {<<epoch_idx, iter_idx>>}
     /\ pc \in {"account", "log_check"} => ops = BatchOps

\* the second batch of the second epoch has been stepped
C6_Witness ==
  /\ pc = "account" /\ epoch_idx = 2 /\ iter_idx = 2
  /\ Len(dataset.sizes) = 3
  /\ Len(heap.live) = 5
  /\ heap.live[5].grad = {<<2, 2>>}
  /\ ops = BatchOps

\* the batches whose log check is done
LogChecked == IF pc = "log_check" THEN Len(batch_hist) - 1 ELSE Len(batch_hist)

LastLogged ==
  IF log_lines = <<>> THEN 0 ELSE log_lines[Len(log_lines)].iter

\* C7: in train_epoch() the log lines are those of the iterations that are
\* multiples of log_interval, in order; each holds the totals of exactly the
\* last log_interval batches, with a positive sample count; iter_cnt,
\* iter_loss and iter_mse are the totals of the batches since the last log
\* line (zero right after it), epoch_loss is the total of all batches; the
\* value returned is that total over len(loader.dataset), which is the
\* sample-weighted mean loss exactly when the batch sizes add up to it.
C7_LossAccounting ==
  InEpoch =>
     /\ Len(log_lines) = LogChecked \div args.log_interval
     /\ \A k \in 1..Len(log_lines) :
          LET i == log_lines[k].iter
              w == SubSeq(batch_hist, i - args.log_interval + 1, i)
          IN /\ i = k * args.log_interval
             /\ Len(w) = args.log_interval
             /\ log_lines[k].cnt = CntSum(w) /\ log_lines[k].cnt > 0
             /\ log_lines[k].loss = LossSum(w)
             /\ log_lines[k].mse = MseSum(w)
     /\ LET w == SubSeq(batch_hist, LastLogged + 1, Len(batch_hist))
        IN /\ iter_cnt = CntSum(w)
           /\ iter_loss = LossSum(w)
           /\ iter_mse = MseSum(w)
     /\ epoch_loss = LossSum(batch_hist)
     /\ \A k \in 1..Len(batch_hist) : batch_hist[k].n = dataset.sizes[k]
     /\ pc = "te_return" =>
          /\ Len(batch_hist) = Len(dataset.sizes)
          /\ TrainEpochReturn = [num |-> LossSum(batch_hist), den |-> dataset.len]
          /\ (TrainEpochReturn.num * CntSum(batch_hist)
                = LossSum(batch_hist) * TrainEpochReturn.den)
               <=> (CntSum(batch_hist) = dataset.len)

\* four batches logged every two: the second line holds batches 3 and 4 only
C7_Witness ==
  /\ pc = "for_batch" /\ iter_idx = 4
  /\ args.log_interval = 2
  /\ dataset.sizes = <<2, 2, 2, 1>> /\ dataset.len = 8
  /\ Len(log_lines) = 2
  /\ log_lines[1].cnt = 4 /\ log_lines[1].loss = 8 /\ log_lines[1].mse = 6
  /\ log_lines[2].cnt = 3 /\ log_lines[2].loss = 4 /\ log_lines[2].mse = 3
  /\ iter_cnt = 0 /\ iter_loss = 0 /\ iter_mse = 0
  /\ epoch_loss = 12

\* the pair (f, l) is in the sweep: file f is listed and has an l-th learning rate
Listed(f, l) ==
  /\ f \in {train_list[i] : i \in 1..Len(train_list)}
  /\ l <= Len(yaml[f].train_lrs)

Training(f, l) ==
  pc = "train_begin" /\ args.key = f /\ lri = l
    /\ args.train_lr = yaml[f].train_lrs[l]

\* C9: main() never returns, and unless a train() call ends in an error every
\* pair of a listed config file and one of its learning rates is trained again
\* and again.
C9_SweepRepeatsForever ==
  /\ [](pc # "main_returned")
  /\ \A f \in 1..MaxFiles, l \in 1..MaxLrs :
       <>(pc = "error") \/ []<>(Listed(f, l) => Training(f, l))

\* the last pair of the list is trained again after a whole pass
C9_Witness ==
  /\ n_sweeps >= 1
  /\ Len(train_list) = 2
  /\ Len(yaml[2].train_lrs) = 2
  /\ Training(2, 2)

====
